---- MODULE Spec2Model ----
(***************************************************************************)
(* State-machine model of the Shairport-Sync player bridge                 *)
(* (python-flask-socketio-server/app.py): an MQTT client whose network     *)
(* thread turns broker messages into socket.io events and keeps the most   *)
(* recent track info in SAVED_INFO, and socket.io handlers that resend     *)
(* SAVED_INFO ('myevent') or publish a remote command to the broker.       *)
(*                                                                         *)
(* Payloads are byte sequences (Seq(0..255)); decoded text is a sequence   *)
(* of code points; a topic "root/sub" is the pair <<root, sub>>.           *)
(***************************************************************************)
EXTENDS Integers, Sequences, FiniteSets, TLC

(***************************************************************************)
(* Bounds and inputs                                                       *)
(***************************************************************************)

\* At most MaxRacing broker messages are handled while one 'myevent' handler
\* is running.
MaxRacing == 2

\* Volumes are tried at steps of 1/Resolution; the player sends hundredths.
Resolution == 100

\* The display clients (socket.io sessions) that may connect.
Sessions == {"s1", "s2"}

\* MQTT_CONF["topic"]
TOPIC_ROOT == "root"

NoMsg == [none |-> TRUE]

\* static/img/default.png, as read at start-up (only its first bytes matter
\* to nobody: it is never sniffed, only base64-encoded).
default_image_octets == <<137, 80, 78, 71>>

default_image_mime_type == "image/png"

\* "A", "e-acute" (two bytes), and a byte that is never valid UTF-8
TextPayloads == {<<65>>, <<195, 169>>, <<255>>}

\* "-15.00,0,0,0"  "-144.00,0,0,0" (mute)  "abc,0,0,0"  "abc"  "nan,0,0,0"
VolumePayloads ==
    { <<45, 49, 53, 46, 48, 48, 44, 48, 44, 48, 44, 48>>,
      <<45, 49, 52, 52, 46, 48, 48, 44, 48, 44, 48, 44, 48>>,
      <<97, 98, 99, 44, 48, 44, 48, 44, 48>>,
      <<97, 98, 99>>,
      <<110, 97, 110, 44, 48, 44, 48, 44, 48>> }

\* empty, JPEG magic, the PNG file signature (which ends \r\n\x1a\n)
CoverPayloads ==
    { <<>>, <<255, 216, 255>>, <<137, 80, 78, 71, 13, 10, 26, 10>> }

\* "--", what shairport-sync sends with a transport signal
SignalPayloads == {<<45, 45>>}

(***************************************************************************)
(* Tables of the program                                                   *)
(***************************************************************************)

\* the keys of known_play_metadata_types, in dict order
known_play_metadata_types ==
    << "songalbum", "volume", "client_ip", "active_start", "active_end",
       "play_start", "play_end", "play_flush", "play_resume" >>

\* the keys of known_core_metadata_types, in dict order
known_core_metadata_types == << "artist", "album", "title", "genre" >>

known_remote_commands ==
    << "command", "beginff", "beginrew", "mutetoggle", "nextitem", "previtem",
       "pause", "playpause", "play", "stop", "playresume", "shuffle_songs",
       "volumedown", "volumeup" >>

Range(s) == { s[i] : i \in 1..Len(s) }

\* Every subtopic the player may publish on that the bridge can subscribe to.
PlayerSubtopics ==
    Range(known_core_metadata_types) \cup Range(known_play_metadata_types)
        \cup {"cover"}

_form_subtopic_topic(subtopic) == <<TOPIC_ROOT, subtopic>>

Topics == { _form_subtopic_topic(s) : s \in PlayerSubtopics }

\* The webui section of config.yaml: show_artwork absent, true or false.
WebuiConfigs ==
    { [k \in {} |-> TRUE], [show_artwork |-> TRUE], [show_artwork |-> FALSE] }

\* dict.get(key, default)
ConfigGet(config, key, default) ==
    IF key \in DOMAIN config THEN config[key] ELSE default

\* populateTemplateData(config).get("showCoverArt")
populateTemplateData_showCoverArt(config) ==
    ConfigGet(config, "show_artwork", TRUE)

(***************************************************************************)
(* Decoding and encoding                                                   *)
(***************************************************************************)

IsCont(b) == b \in 128..191

\* bytes.decode("utf8"), strict: [ok, text], text the code points
RECURSIVE Utf8Decode(_)
Utf8Decode(b) ==
    IF b = <<>> THEN [ok |-> TRUE, text |-> <<>>]
    ELSE LET n == IF b[1] < 128 THEN 1
                  ELSE IF /\ b[1] \in 194..223 /\ Len(b) >= 2 /\ IsCont(b[2])
                       THEN 2
                  ELSE IF /\ b[1] \in 224..239 /\ Len(b) >= 3
                          /\ IsCont(b[2]) /\ IsCont(b[3])
                          /\ (b[1] = 224 => b[2] >= 160)
                          /\ (b[1] = 237 => b[2] <= 159)
                       THEN 3
                  ELSE IF /\ b[1] \in 240..244 /\ Len(b) >= 4
                          /\ IsCont(b[2]) /\ IsCont(b[3]) /\ IsCont(b[4])
                          /\ (b[1] = 240 => b[2] >= 144)
                          /\ (b[1] = 244 => b[2] <= 143)
                       THEN 4
                  ELSE 0
             cp == CASE n = 1 -> b[1]
                     [] n = 2 -> (b[1] - 192) * 64 + (b[2] - 128)
                     [] n = 3 -> (b[1] - 224) * 4096 + (b[2] - 128) * 64
                                    + (b[3] - 128)
                     [] n = 4 -> (b[1] - 240) * 262144 + (b[2] - 128) * 4096
                                    + (b[3] - 128) * 64 + (b[4] - 128)
                     [] OTHER -> 0
         IN IF n = 0 THEN [ok |-> FALSE, text |-> <<>>]
            ELSE LET rest == Utf8Decode(SubSeq(b, n + 1, Len(b)))
                 IN IF rest.ok
                    THEN [ok |-> TRUE, text |-> <<cp>> \o rest.text]
                    ELSE rest

\* bytes.decode("ascii"): [ok, text]
AsciiDecode(b) ==
    IF \A i \in 1..Len(b) : b[i] < 128
    THEN [ok |-> TRUE, text |-> b]
    ELSE [ok |-> FALSE, text |-> <<>>]

\* str.split(sep) for a one-character separator
RECURSIVE Split(_, _)
Split(s, sep) ==
    IF \A i \in 1..Len(s) : s[i] # sep THEN <<s>>
    ELSE LET i == CHOOSE k \in 1..Len(s) :
                      s[k] = sep /\ \A j \in 1..(k - 1) : s[j] # sep
         IN <<SubSeq(s, 1, i - 1)>> \o Split(SubSeq(s, i + 1, Len(s)), sep)

\* the base64 alphabet, as character codes; 61 is the padding "="
B64Char(v) ==
    IF v < 26 THEN 65 + v
    ELSE IF v < 52 THEN 97 + (v - 26)
    ELSE IF v < 62 THEN 48 + (v - 52)
    ELSE IF v = 62 THEN 43 ELSE 47

\* base64.b64encode(octets).decode("utf-8")
RECURSIVE b64encode(_)
b64encode(o) ==
    IF Len(o) = 0 THEN <<>>
    ELSE IF Len(o) = 1
    THEN << B64Char(o[1] \div 4), B64Char((o[1] % 4) * 16), 61, 61 >>
    ELSE IF Len(o) = 2
    THEN << B64Char(o[1] \div 4),
            B64Char((o[1] % 4) * 16 + (o[2] \div 16)),
            B64Char((o[2] % 16) * 4), 61 >>
    ELSE << B64Char(o[1] \div 4),
            B64Char((o[1] % 4) * 16 + (o[2] \div 16)),
            B64Char((o[2] % 16) * 4 + (o[3] \div 64)),
            B64Char(o[3] % 64) >> \o b64encode(SubSeq(o, 4, Len(o)))

default_image_b64_str == b64encode(default_image_octets)

StartsWith(s, prefix) ==
    Len(s) >= Len(prefix) /\ SubSeq(s, 1, Len(prefix)) = prefix

_guessImageMime(magic) ==
    IF StartsWith(magic, <<255, 216>>) THEN "image/jpeg"
    ELSE IF StartsWith(magic, <<137, 80, 78, 71, 13, 10, 26, 13>>)
    THEN "image/png"
    ELSE "image/jpg"

(***************************************************************************)
(* Numbers: a float the program computes is the exact rational [n, d],     *)
(* d > 0, in lowest terms (the program's floats agree with it on every     *)
(* hundredth between -144.00 and 0.00 after int()).                        *)
(***************************************************************************)

RECURSIVE GCD(_, _)
GCD(a, b) == IF b = 0 THEN a ELSE GCD(b, a % b)

Rat(n, d) ==
    LET g == GCD(IF n < 0 THEN -n ELSE n, d)
    IN  [n |-> n \div g, d |-> d \div g]

RSub(a, b) == Rat(a.n * b.d - b.n * a.d, a.d * b.d)

RAdd(a, b) == Rat(a.n * b.d + b.n * a.d, a.d * b.d)

RMul(a, b) == Rat(a.n * b.n, a.d * b.d)

\* a / b, b # 0
RDiv(a, b) ==
    IF b.n > 0 THEN Rat(a.n * b.d, a.d * b.n)
    ELSE Rat(-(a.n * b.d), a.d * (-b.n))

RLess(a, b) == a.n * b.d < b.n * a.d

REq(a, b) == a.n * b.d = b.n * a.d

\* int(x): truncation toward zero
IntTrunc(r) == IF r.n >= 0 THEN r.n \div r.d ELSE -((-r.n) \div r.d)

IsDigit(c) == c \in 48..57

RECURSIVE DigitsValue(_)
DigitsValue(s) ==
    IF s = <<>> THEN 0
    ELSE DigitsValue(SubSeq(s, 1, Len(s) - 1)) * 10 + (s[Len(s)] - 48)

RECURSIVE Pow10(_)
Pow10(k) == IF k = 0 THEN 1 ELSE 10 * Pow10(k - 1)

\* float(s) for s a decimal literal without exponent, blanks or underscores,
\* or nan / inf / infinity: [kind |-> "finite", val], "nan", "inf", or
\* "ValueError" for anything else.
ParseFloat(s) ==
    LET signed == Len(s) >= 1 /\ s[1] \in {43, 45}
        neg    == signed /\ s[1] = 45
        body   == IF signed THEN Tail(s) ELSE s
        dots   == { i \in 1..Len(body) : body[i] = 46 }
        dot    == IF dots = {} THEN Len(body) + 1
                  ELSE CHOOSE i \in dots : TRUE
        ip     == SubSeq(body, 1, dot - 1)
        fp     == SubSeq(body, dot + 1, Len(body))
        isNum  == /\ Cardinality(dots) <= 1
                  /\ \A i \in 1..Len(ip) : IsDigit(ip[i])
                  /\ \A i \in 1..Len(fp) : IsDigit(fp[i])
                  /\ Len(ip) + Len(fp) >= 1
        mag    == Rat(DigitsValue(ip \o fp), Pow10(Len(fp)))
    IN  IF body = <<110, 97, 110>>
        THEN [kind |-> "nan", val |-> Rat(0, 1)]
        ELSE IF body \in { <<105, 110, 102>>,
                           <<105, 110, 102, 105, 110, 105, 116, 121>> }
        THEN [kind |-> "inf", val |-> Rat(0, 1)]
        ELSE IF isNum
        THEN [kind |-> "finite",
              val |-> IF neg THEN Rat(-mag.n, mag.d) ELSE mag]
        ELSE [kind |-> "ValueError", val |-> Rat(0, 1)]

\* the two spans taken the wrong way round in the scale factor
make_interpolator_spans_swapped(left_min, left_max, right_min, right_max) ==
    LET leftSpan  == RSub(left_max, left_min)
        rightSpan == RSub(right_max, right_min)
    IN  [left_min |-> left_min, right_min |-> right_min,
         scaleFactor |-> RDiv(leftSpan, rightSpan)]

\* make_interpolator: the closure's captured values
make_interpolator(left_min, left_max, right_min, right_max) ==
    LET leftSpan  == RSub(left_max, left_min)
        rightSpan == RSub(right_max, right_min)
    IN  [left_min |-> left_min, right_min |-> right_min,
         scaleFactor |-> RDiv(rightSpan, leftSpan)]

\* the closure interp_fn
interp_fn(f, value) ==
    RAdd(f.right_min, RMul(RSub(value, f.left_min), f.scaleFactor))

volume_scaler(value) ==
    interp_fn(make_interpolator(Rat(-30, 1), Rat(0, 1), Rat(-1, 2), Rat(100, 1)),
              value)

(***************************************************************************)
(* State                                                                   *)
(***************************************************************************)

VARIABLES
    WEBUI_CONF,   \* config.get("webui", {}), read once at start-up
    feed,         \* the subtopics the player publishes on in this run
    mqtt,         \* the broker connection: "connecting" or "subscribed"
    subscribed,   \* topic -> SUBSCRIBE requests sent on this connection
    SAVED_INFO,   \* the dict, as its items <<[key, msg], ...>> in dict order
    sessions,     \* the socket.io sessions connected now
    replay,       \* the 'myevent' handler in progress (or just finished)
    last,         \* the handler that ran in the last step
    emitted,      \* the socketio.emit calls of the last step
    published,    \* the mqttc.publish calls of the last step
    raised,       \* the exception that ended the last step's handler
    lastEvent,    \* event kind -> payload last broadcast for a broker message
    interp        \* volume_scaler applied on its own: arguments and results

vars == << WEBUI_CONF, feed, mqtt, subscribed, SAVED_INFO, sessions, replay,
           last, emitted, published, raised, lastEvent, interp >>

\* The literal event names of the client interface.
EventKinds ==
    { "playing_artist", "playing_album", "playing_genre", "playing_title",
      "playing_songalbum", "playing_volume", "playing_client_ip",
      "playing_active_start", "playing_active_end",
      "play_start", "play_end", "play_flush", "play_resume",
      "volume", "cover_art" }

\* volume_scaler is not being applied on its own
IdleInterp ==
    [v1 |-> Rat(0, 1), v2 |-> Rat(0, 1), done |-> FALSE,
     r1 |-> Rat(0, 1), r2 |-> Rat(0, 1)]

IdleReplay ==
    [pc |-> "idle", sid |-> "", pos |-> 0, used |-> 0, out |-> <<>>,
     during |-> 0, snaps |-> {}, touched |-> {}]

Handler(op, topic, payload, token) ==
    [op |-> op, topic |-> topic, payload |-> payload, token |-> token]

(***************************************************************************)
(* The dict SAVED_INFO                                                     *)
(***************************************************************************)

DictKeys(d) == { d[i].key : i \in 1..Len(d) }

DictGet(d, key) ==
    IF key \in DictKeys(d)
    THEN d[CHOOSE i \in 1..Len(d) : d[i].key = key].msg
    ELSE NoMsg

\* a list kept in place of the dict: every store adds an item
DictSet_append(d, key, msg) == Append(d, [key |-> key, msg |-> msg])

\* d[key] = msg: an existing key keeps its place, a new key goes last
DictSet(d, key, msg) ==
    IF key \in DictKeys(d)
    THEN [i \in 1..Len(d) |->
             IF d[i].key = key THEN [key |-> key, msg |-> msg] ELSE d[i]]
    ELSE Append(d, [key |-> key, msg |-> msg])

\* the (key, msg) pairs of a dict or of a list of items
Pairs(d) == { <<d[i].key, d[i].msg>> : i \in 1..Len(d) }

(***************************************************************************)
(* Handlers of the MQTT network thread.  A handler threads the record      *)
(* st = [saved, emitted, raised] through its statements.                   *)
(***************************************************************************)

\* socketio.emit(event, msg): no "to", so every connected session gets it.
\* stored tells whether SAVED_INFO maps event to msg when the call is made.
socketio_emit(st, event, msg) ==
    [st EXCEPT !.emitted =
        Append(@, [event |-> event, data |-> msg, to |-> sessions,
                   stored |-> /\ event \in DictKeys(st.saved)
                              /\ DictGet(st.saved, event) = msg])]

Raise(st, exc) == [st EXCEPT !.raised = exc]

\* SAVED_INFO.setdefault in place of the assignment: the first value stays
_send_and_store_setdefault(st, metadata_name, message) ==
    LET dec == Utf8Decode(message.payload)
        msg == [data |-> dec.text]
        name == "playing_" \o metadata_name
    IN  IF ~dec.ok THEN [st EXCEPT !.raised = "UnicodeDecodeError"]
        ELSE [st EXCEPT
                 !.saved = IF name \in DictKeys(@) THEN @
                           ELSE Append(@, [key |-> name, msg |-> msg]),
                 !.emitted = Append(@, [event |-> name, data |-> msg,
                                        to |-> sessions, stored |-> TRUE])]

\* the slot written and announced with an empty text before the payload is
\* decoded
_send_and_store_decode_last(st, metadata_name, message) ==
    LET dec == Utf8Decode(message.payload)
        emitted_metadata_name == "playing_" \o metadata_name
        early == socketio_emit(
                     [st EXCEPT !.saved = DictSet(@, emitted_metadata_name,
                                                  [data |-> <<>>])],
                     emitted_metadata_name, [data |-> <<>>])
    IN  IF ~dec.ok THEN Raise(early, "UnicodeDecodeError")
        ELSE socketio_emit(
                 [st EXCEPT !.saved = DictSet(@, emitted_metadata_name,
                                              [data |-> dec.text])],
                 emitted_metadata_name, [data |-> dec.text])

\* the last two statements exchanged: emit, then store
_send_and_store_emit_first(st, metadata_name, message) ==
    LET dec == Utf8Decode(message.payload)
        msg == [data |-> dec.text]
        emitted_metadata_name == "playing_" \o metadata_name
        sent == socketio_emit(st, emitted_metadata_name, msg)
    IN  IF ~dec.ok THEN Raise(st, "UnicodeDecodeError")
        ELSE [sent EXCEPT !.saved = DictSet(@, emitted_metadata_name, msg)]

_send_and_store_playing_metadata(st, metadata_name, message) ==
    LET dec == Utf8Decode(message.payload)
        msg == [data |-> dec.text]
        emitted_metadata_name == "playing_" \o metadata_name
    IN  IF ~dec.ok THEN Raise(st, "UnicodeDecodeError")
        ELSE socketio_emit(
                 [st EXCEPT !.saved = DictSet(@, emitted_metadata_name, msg)],
                 emitted_metadata_name, msg)

\* the signal kept in SAVED_INFO as the text fields are
_send_and_store_play_event(st, metadata_name) ==
    socketio_emit([st EXCEPT !.saved = DictSet(@, metadata_name,
                                               metadata_name)],
                  metadata_name, metadata_name)

_send_play_event(st, metadata_name) ==
    socketio_emit(st, metadata_name, metadata_name)

\* the except clause left out: volume_as_percent keeps its initial 0.0
_send_volume_event_zero(st, metadata_name, message) ==
    LET dec    == AsciiDecode(message.payload)
        fields == Split(dec.text, 44)
        f      == ParseFloat(fields[1])
    IN  IF ~dec.ok THEN Raise(st, "UnicodeDecodeError")
        ELSE IF Len(fields) # 4 THEN Raise(st, "ValueError")
        ELSE IF f.kind = "ValueError"
        THEN socketio_emit(st, metadata_name, [data |-> 0])
        ELSE IF f.kind = "nan" THEN Raise(st, "ValueError")
        ELSE IF f.kind = "inf" THEN Raise(st, "OverflowError")
        ELSE socketio_emit(st, metadata_name,
                           [data |-> IntTrunc(volume_scaler(f.val))])

_send_volume_event(st, metadata_name, message) ==
    LET dec    == AsciiDecode(message.payload)
        fields == Split(dec.text, 44)
        f      == ParseFloat(fields[1])
    IN  IF ~dec.ok THEN Raise(st, "UnicodeDecodeError")
        ELSE IF Len(fields) # 4 THEN Raise(st, "ValueError")
        ELSE IF f.kind = "ValueError"
        THEN socketio_emit(st, metadata_name, [data |-> 50])
        ELSE IF f.kind = "nan" THEN Raise(st, "ValueError")
        ELSE IF f.kind = "inf" THEN Raise(st, "OverflowError")
        ELSE socketio_emit(st, metadata_name,
                           [data |-> IntTrunc(volume_scaler(f.val))])

\* the "cover art" branch of on_message
CoverBranch(st, message) ==
    LET empty == message.payload = <<>>
        mime_type == IF empty THEN default_image_mime_type
                     ELSE _guessImageMime(message.payload)
        image_b64_str == IF empty THEN default_image_b64_str
                         ELSE b64encode(message.payload)
        msg == [data |-> image_b64_str, mimetype |-> mime_type]
    IN  socketio_emit([st EXCEPT !.saved = DictSet(@, "cover_art", msg)],
                      "cover_art", msg)

\* the album statement pasted from the artist one, its topic unchanged
Branches_copy_paste ==
    << [sub |-> "artist", do |-> "metadata"],
       [sub |-> "artist", do |-> "metadata"],
       [sub |-> "genre", do |-> "metadata"],
       [sub |-> "title", do |-> "metadata"],
       [sub |-> "play_start", do |-> "play"],
       [sub |-> "play_end", do |-> "play"],
       [sub |-> "play_flush", do |-> "play"],
       [sub |-> "play_resume", do |-> "play"],
       [sub |-> "volume", do |-> "volume"],
       [sub |-> "cover", do |-> "cover"] >>

\* a statement for songalbum added after the four text fields
Branches_with_songalbum ==
    << [sub |-> "artist", do |-> "metadata"],
       [sub |-> "album", do |-> "metadata"],
       [sub |-> "genre", do |-> "metadata"],
       [sub |-> "title", do |-> "metadata"],
       [sub |-> "songalbum", do |-> "metadata"],
       [sub |-> "play_start", do |-> "play"],
       [sub |-> "play_end", do |-> "play"],
       [sub |-> "play_flush", do |-> "play"],
       [sub |-> "play_resume", do |-> "play"],
       [sub |-> "volume", do |-> "volume"],
       [sub |-> "cover", do |-> "cover"] >>

\* the "if message.topic == ..." statements of on_message, in order
Branches ==
    << [sub |-> "artist", do |-> "metadata"],
       [sub |-> "album", do |-> "metadata"],
       [sub |-> "genre", do |-> "metadata"],
       [sub |-> "title", do |-> "metadata"],
       [sub |-> "play_start", do |-> "play"],
       [sub |-> "play_end", do |-> "play"],
       [sub |-> "play_flush", do |-> "play"],
       [sub |-> "play_resume", do |-> "play"],
       [sub |-> "volume", do |-> "volume"],
       [sub |-> "cover", do |-> "cover"] >>

\* one "if" statement; an exception raised earlier has ended the handler
RunBranch(st, br, message) ==
    IF st.raised # "none" \/ message.topic # _form_subtopic_topic(br.sub)
    THEN st
    ELSE CASE br.do = "metadata" ->
                  _send_and_store_playing_metadata(st, br.sub, message)
           [] br.do = "play" -> _send_play_event(st, br.sub)
           [] br.do = "volume" -> _send_volume_event(st, br.sub, message)
           [] br.do = "cover" -> CoverBranch(st, message)

RECURSIVE RunBranches(_, _, _)
RunBranches(st, i, message) ==
    IF i > Len(Branches) THEN st
    ELSE RunBranches(RunBranch(st, Branches[i], message), i + 1, message)

on_message(st, message) == RunBranches(st, 1, message)

\* the cover subtopic appended whatever the configuration says
subtopic_list_always_cover(config) ==
    known_core_metadata_types \o known_play_metadata_types \o <<"cover">>

\* on_connect's subtopic_list
subtopic_list(config) ==
    known_core_metadata_types \o known_play_metadata_types
        \o (IF populateTemplateData_showCoverArt(config)
            THEN <<"cover">> ELSE <<>>)

\* client.subscribe(topic, 0)
Subscribe(subs, topic) == [subs EXCEPT ![topic] = @ + 1]

RECURSIVE SubscribeAll(_, _, _)
SubscribeAll(subs, list, i) ==
    IF i > Len(list) THEN subs
    ELSE SubscribeAll(Subscribe(subs, _form_subtopic_topic(list[i])),
                      list, i + 1)

\* the callback without its subscribe loop
on_connect_without_subscribe(subs, config) == subs

on_connect(subs, config) == SubscribeAll(subs, subtopic_list(config), 1)

\* mqtt.Client(): a clean session, so a lost connection loses its
\* subscriptions at the broker
NoSubscriptions == [t \in Topics |-> 0]

(***************************************************************************)
(* Handlers of the socket.io server                                        *)
(***************************************************************************)

\* the membership test left out
_generate_remote_command_unchecked(command) ==
    [raised |-> "none", topic |-> <<TOPIC_ROOT, "remote">>, msg |-> command]

_generate_remote_command(command) ==
    IF command \in Range(known_remote_commands)
    THEN [raised |-> "none", topic |-> <<TOPIC_ROOT, "remote">>,
          msg |-> command]
    ELSE [raised |-> "ValueError", topic |-> <<>>, msg |-> ""]

\* mqttc.publish(topic, msg)
mqttc_publish(pubs, topic, msg) ==
    Append(pubs, [topic |-> topic, payload |-> msg])

Payloads(sub) ==
    CASE sub \in {"artist", "album", "genre", "title"} -> TextPayloads
      [] sub = "volume" -> VolumePayloads
      [] sub = "cover" -> CoverPayloads
      [] OTHER -> SignalPayloads

\* the record of a finished 'myevent' handler lasts one step
Settle(r) == IF r.pc = "iter" THEN r ELSE IdleReplay

\* History of the handler in progress: during counts the broker messages
\* handled since the handler began, snaps holds the contents SAVED_INFO had
\* at some instant since then that agree with every item emitted so far,
\* touched the kinds broadcast for a broker message since then.  A handler
\* whose dict changed size will raise at its next turn, whatever happened
\* meanwhile, so its snaps and touched are dropped.
Agrees(pairs, out) == Pairs(out) \subseteq pairs

Observe(r, st) ==
    IF r.pc # "iter" THEN r
    ELSE IF Len(st.saved) # r.used
    THEN [r EXCEPT !.during = @ + 1, !.snaps = {}, !.touched = {}]
    ELSE [r EXCEPT
             !.during = @ + 1,
             !.snaps = @ \cup (IF Agrees(Pairs(st.saved), r.out)
                               THEN {Pairs(st.saved)} ELSE {}),
             !.touched = @ \cup
                 { st.emitted[i].event : i \in 1..Len(st.emitted) }]

\* what a step that emits nothing and publishes nothing leaves behind
Quiet(op) ==
    /\ last' = Handler(op, <<>>, <<>>, "")
    /\ emitted' = <<>>
    /\ published' = <<>>
    /\ raised' = "none"
    /\ replay' = Settle(replay)

(***************************************************************************)
(* Initial state and actions                                               *)
(***************************************************************************)

Init ==
    /\ WEBUI_CONF \in WebuiConfigs
    /\ feed \in { {a} : a \in PlayerSubtopics }
    /\ mqtt = "connecting"
    /\ subscribed = NoSubscriptions
    /\ SAVED_INFO = <<>>
    /\ sessions = {}
    /\ replay = IdleReplay
    /\ last = Handler("start", <<>>, <<>>, "")
    /\ emitted = <<>>
    /\ published = <<>>
    /\ raised = "none"
    /\ lastEvent = [k \in EventKinds |-> NoMsg]
    /\ interp = IdleInterp

\* CONNACK after mqttc.connect or after a reconnect: on_connect runs
Connack ==
    /\ mqtt = "connecting"
    /\ mqtt' = "subscribed"
    /\ subscribed' = on_connect(subscribed, WEBUI_CONF)
    /\ Quiet("on_connect")
    /\ UNCHANGED << WEBUI_CONF, interp, feed, SAVED_INFO, sessions, lastEvent >>

\* the connection to the broker is lost; the network thread reconnects
ConnectionLost ==
    /\ mqtt = "subscribed"
    /\ mqtt' = "connecting"
    /\ subscribed' = NoSubscriptions
    /\ Quiet("connection_lost")
    /\ UNCHANGED << WEBUI_CONF, interp, feed, SAVED_INFO, sessions, lastEvent >>

\* the entry of lastEvent for a payload that was broadcast
Sent(data) == [msg |-> data]

\* the events a handler emitted, folded into lastEvent
RECURSIVE Record(_, _, _)
Record(le, ems, i) ==
    IF i > Len(ems) THEN le
    ELSE Record(IF ems[i].event \in DOMAIN le
                THEN [le EXCEPT ![ems[i].event] = Sent(ems[i].data)] ELSE le,
                ems, i + 1)

\* the broker delivers a message of a subscribed topic: on_message runs
OnMessage ==
    \E sub \in feed : \E payload \in Payloads(sub) :
        LET message == [topic |-> _form_subtopic_topic(sub),
                        payload |-> payload]
            st == on_message([saved |-> SAVED_INFO, emitted |-> <<>>,
                              raised |-> "none"], message)
        IN  /\ mqtt = "subscribed"
            /\ subscribed[message.topic] > 0
            /\ replay.pc = "iter" => replay.during < MaxRacing
            /\ SAVED_INFO' = st.saved
            /\ emitted' = st.emitted
            /\ raised' = st.raised
            /\ published' = <<>>
            /\ last' = Handler("on_message", message.topic, payload, "")
            /\ lastEvent' = Record(lastEvent, st.emitted, 1)
            /\ replay' = Observe(Settle(replay), st)
            /\ UNCHANGED << WEBUI_CONF, interp, feed, mqtt, subscribed, sessions >>

\* a display client connects (the program registers no connect handler)
ClientConnect ==
    \E s \in Sessions \ sessions :
        /\ sessions' = sessions \cup {s}
        /\ Quiet("connect")
        /\ UNCHANGED << WEBUI_CONF, interp, feed, mqtt, subscribed, SAVED_INFO,
                        lastEvent >>

ClientDisconnect ==
    \E s \in sessions :
        /\ sessions' = sessions \ {s}
        /\ Quiet("disconnect")
        /\ UNCHANGED << WEBUI_CONF, interp, feed, mqtt, subscribed, SAVED_INFO,
                        lastEvent >>

\* handle_my_custom_event is entered: the for statement creates the
\* iterator of SAVED_INFO.items()
MyEvent ==
    \E s \in sessions :
        /\ replay.pc # "iter"
        /\ replay' = [pc |-> "iter", sid |-> s, pos |-> 0,
                      used |-> Len(SAVED_INFO), out |-> <<>>, during |-> 0,
                      snaps |-> {Pairs(SAVED_INFO)}, touched |-> {}]
        /\ last' = Handler("myevent", <<>>, <<>>, "")
        /\ emitted' = <<>>
        /\ published' = <<>>
        /\ raised' = "none"
        /\ UNCHANGED << WEBUI_CONF, interp, feed, mqtt, subscribed, SAVED_INFO,
                        sessions, lastEvent >>

\* one turn of the for statement: next() on the iterator, then the body.
\* next() raises RuntimeError when the dict changed size since the iterator
\* was created, and ends the loop after the last item.
MyEventNext ==
    /\ replay.pc = "iter"
    /\ last' = Handler("myevent", <<>>, <<>>, "")
    /\ published' = <<>>
    /\ IF Len(SAVED_INFO) # replay.used
       THEN /\ replay' = [replay EXCEPT !.pc = "error"]
            /\ emitted' = <<>>
            /\ raised' = "RuntimeError"
       ELSE IF replay.pos < Len(SAVED_INFO)
       THEN LET item == SAVED_INFO[replay.pos + 1]
                st == socketio_emit([saved |-> SAVED_INFO, emitted |-> <<>>,
                                     raised |-> "none"], item.key, item.msg)
            IN  /\ replay' =
                     [replay EXCEPT
                         !.pos = @ + 1,
                         !.out = Append(@, item),
                         !.snaps = { c \in @ : <<item.key, item.msg>> \in c }]
                /\ emitted' = st.emitted
                /\ raised' = "none"
       ELSE /\ replay' = [replay EXCEPT !.pc = "done"]
            /\ emitted' = <<>>
            /\ raised' = "none"
    /\ UNCHANGED << WEBUI_CONF, interp, feed, mqtt, subscribed, SAVED_INFO, sessions,
                    lastEvent >>

\* the handler also announcing the command to the display clients
RemoteHandler_announcing(s, event, token) ==
    LET r == _generate_remote_command(token)
    IN  /\ s \in sessions
        /\ last' = Handler(event, <<>>, <<>>, token)
        /\ raised' = r.raised
        /\ published' = IF r.raised = "none"
                        THEN mqttc_publish(<<>>, r.topic, r.msg) ELSE <<>>
        /\ emitted' = <<[event |-> event, data |-> token, to |-> sessions,
                         stored |-> FALSE]>>
        /\ replay' = Settle(replay)
        /\ UNCHANGED << WEBUI_CONF, interp, feed, mqtt, subscribed,
                        SAVED_INFO, sessions, lastEvent >>

\* the body shared by the remote_* handlers:
\*     (topic, msg) = _generate_remote_command(token); mqttc.publish(topic, msg)
RemoteHandler(s, event, token) ==
    LET r == _generate_remote_command(token)
    IN  /\ s \in sessions
        /\ last' = Handler(event, <<>>, <<>>, token)
        /\ raised' = r.raised
        /\ published' = IF r.raised = "none"
                        THEN mqttc_publish(<<>>, r.topic, r.msg) ELSE <<>>
        /\ emitted' = <<>>
        /\ replay' = Settle(replay)
        /\ UNCHANGED << WEBUI_CONF, interp, feed, mqtt, subscribed, SAVED_INFO,
                        sessions, lastEvent >>

handle_previtem ==
    \E s \in sessions : RemoteHandler(s, "remote_previtem", "previtem")

handle_nextitem ==
    \E s \in sessions : RemoteHandler(s, "remote_nextitem", "nextitem")

handle_stop ==
    \E s \in sessions : RemoteHandler(s, "remote_stop", "stop")

handle_pause ==
    \E s \in sessions : RemoteHandler(s, "remote_pause", "pause")

handle_playpause ==
    \E s \in sessions : RemoteHandler(s, "remote_playpause", "playpause")

handle_play ==
    \E s \in sessions : RemoteHandler(s, "remote_play", "play")

\* pasted from handle_play, the token unchanged
handle_playresume_play ==
    \E s \in sessions : RemoteHandler(s, "remote_playresume", "play")

handle_playresume ==
    \E s \in sessions : RemoteHandler(s, "remote_playresume", "playresume")

handle_mutetoggle ==
    \E s \in sessions : RemoteHandler(s, "remote_mutetoggle", "mutetoggle")

handle_volumedown ==
    \E s \in sessions : RemoteHandler(s, "remote_volumedown", "volumedown")

handle_volumeup ==
    \E s \in sessions : RemoteHandler(s, "remote_volumeup", "volumeup")

handle_beginrew ==
    \E s \in sessions : RemoteHandler(s, "remote_beginrew", "beginrew")

handle_beginff ==
    \E s \in sessions : RemoteHandler(s, "remote_beginff", "beginff")

handle_shuffle_songs ==
    \E s \in sessions : RemoteHandler(s, "remote_shuffle_songs", "shuffle_songs")

RemoteCommand ==
    \/ handle_previtem
    \/ handle_nextitem
    \/ handle_stop
    \/ handle_pause
    \/ handle_playpause
    \/ handle_play
    \/ handle_playresume
    \/ handle_mutetoggle
    \/ handle_volumedown
    \/ handle_volumeup
    \/ handle_beginrew
    \/ handle_beginff
    \/ handle_shuffle_songs

Next ==
    \/ Connack
    \/ ConnectionLost
    \/ OnMessage
    \/ ClientConnect
    \/ ClientDisconnect
    \/ MyEvent
    \/ MyEventNext
    \/ RemoteCommand

Spec == Init /\ [][Next]_vars

\* issueCommand: the body of a remote_* handler run on any token a caller
\* may pass, known or not.
CommandInputs ==
    Range(known_remote_commands) \cup {"not_a_real_command", "", "Stop", "next"}

IssueCommand ==
    \E s \in sessions : \E token \in CommandInputs :
        RemoteHandler(s, "issueCommand", token)

NextCmd ==
    \/ ClientConnect
    \/ ClientDisconnect
    \/ IssueCommand

SpecCmd == Init /\ [][NextCmd]_vars

\* The cache and its replay, with a player that publishes on two subtopics.
InitCache ==
    /\ WEBUI_CONF = [show_artwork |-> TRUE]
    /\ feed \in { {a, b} : a, b \in PlayerSubtopics }
    /\ mqtt = "connecting"
    /\ subscribed = NoSubscriptions
    /\ SAVED_INFO = <<>>
    /\ sessions = {}
    /\ replay = IdleReplay
    /\ last = Handler("start", <<>>, <<>>, "")
    /\ emitted = <<>>
    /\ published = <<>>
    /\ raised = "none"
    /\ lastEvent = [k \in EventKinds |-> NoMsg]
    /\ interp = IdleInterp

NextCache ==
    \/ Connack
    \/ OnMessage
    \/ ClientConnect
    \/ MyEvent
    \/ MyEventNext

SpecCache == InitCache /\ [][NextCache]_vars

\* volume_scaler on its own, applied to two volumes of the range [-30, 0]
\* taken from the grid of 1/Resolution steps, v1 <= v2.
InterpGaps == {0, 1, 7, Resolution, 30 * Resolution}

InitInterp ==
    /\ WEBUI_CONF = [show_artwork |-> TRUE]
    /\ feed = {"volume"}
    /\ mqtt = "connecting"
    /\ subscribed = NoSubscriptions
    /\ SAVED_INFO = <<>>
    /\ sessions = {}
    /\ replay = IdleReplay
    /\ last = Handler("start", <<>>, <<>>, "")
    /\ emitted = <<>>
    /\ published = <<>>
    /\ raised = "none"
    /\ lastEvent = [k \in EventKinds |-> NoMsg]
    /\ \E i \in (-30 * Resolution)..0 : \E g \in InterpGaps :
           /\ i + g <= 0
           /\ interp = [v1 |-> Rat(i, Resolution),
                        v2 |-> Rat(i + g, Resolution),
                        done |-> FALSE, r1 |-> Rat(0, 1), r2 |-> Rat(0, 1)]

Interpolate ==
    /\ ~interp.done
    /\ interp' = [interp EXCEPT !.done = TRUE,
                                !.r1 = volume_scaler(interp.v1),
                                !.r2 = volume_scaler(interp.v2)]
    /\ last' = Handler("volume_scaler", <<>>, <<>>, "")
    /\ UNCHANGED << WEBUI_CONF, feed, mqtt, subscribed, SAVED_INFO, sessions,
                    replay, emitted, published, raised, lastEvent >>

NextInterp == Interpolate

SpecInterp == InitInterp /\ [][NextInterp]_vars

\* The broker connection on its own: messages, losses and reconnections.
\* The network thread started by mqttc.loop_start() reconnects by itself,
\* so a CONNACK that stays possible does arrive.
NextLink ==
    \/ Connack
    \/ ConnectionLost
    \/ OnMessage

SpecLink == Init /\ [][NextLink]_vars /\ WF_vars(Connack)

(***************************************************************************)
(* Properties                                                              *)
(***************************************************************************)

\* the event kinds the bridge is described as forwarding to browsers
BridgeKinds ==
    { "playing_artist", "playing_album", "playing_genre", "playing_title",
      "volume", "cover_art",
      "play_start", "play_end", "play_flush", "play_resume" }

\* the event kinds that are kept for a later replay
StoredKinds ==
    { "playing_artist", "playing_album", "playing_genre", "playing_title",
      "cover_art" }

Count(out, K) == Cardinality({ i \in 1..Len(out) : out[i].key = K })

\* a completed replay that no event of kind K raced with carries the last
\* payload of kind K, once
ReplayDelivers(K) ==
    (/\ replay.pc = "done"
     /\ lastEvent[K] # NoMsg
     /\ K \notin replay.touched)
        => /\ Count(replay.out, K) = 1
           /\ \E i \in 1..Len(replay.out) :
                  /\ replay.out[i].key = K
                  /\ Sent(replay.out[i].msg) = lastEvent[K]

\* C1, as stated: for every event kind K the bridge has emitted, a 'myevent'
\* replay that no newer event of kind K interleaves with emits K with the
\* payload of the most recent event of kind K.
C1_ReplayDeliversEveryKind == \A K \in BridgeKinds : ReplayDelivers(K)

\* C1, amended: the same for the five kinds that are stored (the four text
\* fields and the cover art) and a replay that runs to completion; a
\* completed replay carries no other kind.
C1_ReplayDeliversStoredKinds ==
    /\ \A K \in StoredKinds : ReplayDelivers(K)
    /\ replay.pc = "done" =>
           \A i \in 1..Len(replay.out) : replay.out[i].key \in StoredKinds

C1_Witness ==
    /\ replay.pc = "done"
    /\ replay.during > 0
    /\ replay.touched # {}
    /\ \E K \in StoredKinds :
           /\ lastEvent[K] # NoMsg
           /\ K \notin replay.touched
           /\ \E i \in 1..Len(replay.out) :
                  /\ replay.out[i].key = K
                  /\ Sent(replay.out[i].msg) = lastEvent[K]

\* the tokens of the remote-command table
KnownTokens ==
    { "command", "beginff", "beginrew", "mutetoggle", "nextitem", "previtem",
      "pause", "playpause", "play", "stop", "playresume", "shuffle_songs",
      "volumedown", "volumeup" }

RemoteTopic == <<TOPIC_ROOT, "remote">>

\* C2: issuing a command publishes exactly one message, whose topic is
\* <topic root>/remote and whose payload is the token, when the token is in
\* the table; otherwise it fails with ValueError and publishes nothing.
C2_IssueCommand ==
    last.op = "issueCommand" =>
        IF last.token \in KnownTokens
        THEN /\ published = <<[topic |-> RemoteTopic, payload |-> last.token]>>
             /\ raised = "none"
        ELSE /\ published = <<>>
             /\ raised = "ValueError"

C2_Witness ==
    /\ last.op = "issueCommand"
    /\ last.token = "not_a_real_command"
    /\ raised = "ValueError"
    /\ published = <<>>

CoverEnabled ==
    \/ "show_artwork" \notin DOMAIN WEBUI_CONF
    \/ WEBUI_CONF["show_artwork"]

RequiredSubtopics ==
    { "artist", "album", "title", "genre" }
        \cup { "songalbum", "volume", "client_ip", "active_start",
               "active_end", "play_start", "play_end", "play_flush",
               "play_resume" }
        \cup (IF CoverEnabled THEN {"cover"} ELSE {})

\* C3: whenever the connection to the broker is established and on_connect
\* has run, the bridge holds exactly one subscription to each required topic
\* (core metadata, play and volume events, and the cover topic iff artwork
\* is enabled) and none to any other, also after a loss and reconnection.
C3_SubscribedToRequired ==
    mqtt = "subscribed" =>
        \A s \in PlayerSubtopics :
            subscribed[<<TOPIC_ROOT, s>>] =
                IF s \in RequiredSubtopics THEN 1 ELSE 0

C3_Witness ==
    /\ mqtt = "subscribed"
    /\ last.op = "on_connect"
    /\ \E K \in EventKinds : lastEvent[K] # NoMsg
    /\ ~CoverEnabled

\* C4, as stated: what a 'myevent' handler emits goes to the socket.io
\* session that sent the request and to no other.
C4_ReplayToRequesterOnly ==
    last.op = "myevent" =>
        \A i \in 1..Len(emitted) : emitted[i].to \subseteq {replay.sid}

\* C5, as stated: the events of one completed replay are the content of the
\* store at a single instant during the replay.
C5_ReplayIsOneSnapshot ==
    replay.pc = "done" => \E c \in replay.snaps : c = Pairs(replay.out)

DefaultCover ==
    [data |-> default_image_b64_str, mimetype |-> default_image_mime_type]

\* C6, as stated: until a cover message has arrived from the broker, the
\* store holds the default image under cover_art, and a completed replay
\* carries a cover_art event holding it.
C6_DefaultCoverSeeded ==
    lastEvent["cover_art"] = NoMsg =>
        /\ "cover_art" \in DictKeys(SAVED_INFO)
        /\ DictGet(SAVED_INFO, "cover_art") = DefaultCover
        /\ replay.pc = "done" =>
               \E i \in 1..Len(replay.out) :
                   /\ replay.out[i].key = "cover_art"
                   /\ replay.out[i].msg = DefaultCover

\* C7: the store holds at most one entry per kind, that entry is the last
\* event of the kind, and a replay emits no kind twice: a completed replay
\* emits every stored kind once.
C7_OneEntryPerKind ==
    /\ \A i, j \in 1..Len(SAVED_INFO) :
           SAVED_INFO[i].key = SAVED_INFO[j].key => i = j
    /\ \A i \in 1..Len(SAVED_INFO) :
           Sent(SAVED_INFO[i].msg) = lastEvent[SAVED_INFO[i].key]
    /\ \A K \in EventKinds : Count(replay.out, K) <= 1
    /\ replay.pc = "done" =>
           \A K \in DictKeys(SAVED_INFO) : Count(replay.out, K) = 1

C7_Witness ==
    /\ replay.pc = "done"
    /\ \E i \in 1..Len(replay.out) :
           /\ replay.out[i].key \in DictKeys(SAVED_INFO)
           /\ replay.out[i].msg # DictGet(SAVED_INFO, replay.out[i].key)

TextSubtopics == { "artist", "album", "genre", "title" }

UnhandledSubtopics ==
    { "songalbum", "client_ip", "active_start", "active_end" }

\* the payload of a message is one its handler can read
WellFormed(sub, payload) ==
    CASE sub \in TextSubtopics \cup UnhandledSubtopics ->
             Utf8Decode(payload).ok
      [] sub = "volume" ->
             /\ AsciiDecode(payload).ok
             /\ Len(Split(payload, 44)) = 4
             /\ ParseFloat(Split(payload, 44)[1]).kind = "finite"
      [] OTHER -> TRUE

\* the event kind described for a subtopic
KindOf(sub) ==
    CASE sub \in TextSubtopics \cup UnhandledSubtopics -> "playing_" \o sub
      [] sub = "cover" -> "cover_art"
      [] OTHER -> sub

OnMessageOf(sub) ==
    /\ last.op = "on_message"
    /\ last.topic = <<TOPIC_ROOT, sub>>

OneEventOfKind(sub) ==
    (OnMessageOf(sub) /\ WellFormed(sub, last.payload))
        => /\ Len(emitted) = 1
           /\ emitted[1].event = KindOf(sub)

\* C8, as stated: a well-formed message on any subscribed subtopic yields
\* exactly one event, of the kind fixed by the subtopic, and no two
\* subtopics share a kind.
C8_OneEventPerSubtopic ==
    /\ \A sub \in PlayerSubtopics : OneEventOfKind(sub)
    /\ \A a, b \in PlayerSubtopics : KindOf(a) = KindOf(b) => a = b

\* C8, amended: that holds for the ten subtopics on_message dispatches (the
\* four text fields, the four play signals, volume and cover); a message on
\* songalbum, client_ip, active_start or active_end yields no event.
C8_OneEventPerDispatchedSubtopic ==
    /\ \A sub \in PlayerSubtopics \ UnhandledSubtopics : OneEventOfKind(sub)
    /\ \A a, b \in PlayerSubtopics : KindOf(a) = KindOf(b) => a = b
    /\ \A sub \in UnhandledSubtopics : OnMessageOf(sub) => emitted = <<>>

C8_Witness ==
    /\ OnMessageOf("cover")
    /\ Len(emitted) = 1
    /\ emitted[1].event = "cover_art"
    /\ "cover_art" \in DictKeys(SAVED_INFO)

\* the first comma-separated field of a volume payload is not a number
FirstFieldNotANumber(payload) ==
    ParseFloat(Split(payload, 44)[1]).kind = "ValueError"

VolumeFallback ==
    /\ raised = "none"
    /\ Len(emitted) = 1
    /\ emitted[1].event = "volume"
    /\ emitted[1].data = [data |-> 50]

RemoteTokens == KnownTokens \ {"command"}

\* C10: each of the thirteen remote_<X> browser events publishes exactly one
\* message, with payload X, on <topic root>/remote; nothing else is ever
\* published, and the placeholder token "command" never is.
C10_RemoteEventPublishesItsToken ==
    /\ \A i \in 1..Len(published) :
           /\ published[i].topic = RemoteTopic
           /\ published[i].payload \in RemoteTokens
    /\ \A X \in RemoteTokens :
           last.op = "remote_" \o X
               => published = <<[topic |-> RemoteTopic, payload |-> X]>>

C10_Witness ==
    /\ last.op = "remote_shuffle_songs"
    /\ published = <<[topic |-> RemoteTopic, payload |-> "shuffle_songs"]>>

\* the first field of a four-field ASCII volume payload, as float() reads it
AirplayVolume(payload) == ParseFloat(Split(payload, 44)[1])

\* the percentage emitted for -30.0, the bottom of the range
SilentPercent == IntTrunc(volume_scaler(Rat(-30, 1)))

\* C11, as stated: a volume message whose first field is below -30.0 (the
\* mute value -144.00 among them) yields a volume event whose percentage is
\* not below the one emitted for -30.0.
C11_BelowRangeIsSilent ==
    (/\ OnMessageOf("volume")
     /\ AsciiDecode(last.payload).ok
     /\ Len(Split(last.payload, 44)) = 4
     /\ AirplayVolume(last.payload).kind = "finite"
     /\ RLess(AirplayVolume(last.payload).val, Rat(-30, 1)))
        => /\ raised = "none"
           /\ Len(emitted) = 1
           /\ emitted[1].event = "volume"
           /\ emitted[1].data.data >= SilentPercent

KindsOf(ems) == { ems[i].event : i \in 1..Len(ems) }

\* C13, as stated: when a display client joins, the handling of the join
\* itself sends every kind the store holds at that moment, without the client
\* having asked for a resend.
C13_JoinReplaysCache ==
    [][(sessions \subseteq sessions' /\ sessions' # sessions)
           => KindsOf(emitted') = DictKeys(SAVED_INFO)]_vars

\* every event of the last step, when that step handled a broker message
\* and the event's kind is in Ks, was stored before it was sent
StoredBeforeSent(Ks) ==
    last.op = "on_message" =>
        \A i \in 1..Len(emitted) :
            emitted[i].event \in Ks => emitted[i].stored

\* C14, as stated: for every event broadcast for a broker message, the store
\* already maps the event's kind to its payload when the broadcast is made.
C14_StoredBeforeBroadcast == StoredBeforeSent(EventKinds)

\* C14, amended: that holds for the five stored kinds (the four text fields
\* and the cover art), and the store keeps, for each of them, the payload
\* last broadcast; volume and the play signals are broadcast without being
\* stored.
C14_StoredKindsStoredBeforeBroadcast ==
    /\ StoredBeforeSent(StoredKinds)
    /\ \A K \in StoredKinds :
           lastEvent[K] # NoMsg =>
               /\ K \in DictKeys(SAVED_INFO)
               /\ Sent(DictGet(SAVED_INFO, K)) = lastEvent[K]
    /\ last.op = "on_message" =>
           \A i \in 1..Len(emitted) :
               emitted[i].event \notin StoredKinds => ~emitted[i].stored

C14_Witness ==
    /\ OnMessageOf("title")
    /\ sessions # {}
    /\ Len(emitted) = 1
    /\ emitted[1].event = "playing_title"
    /\ emitted[1].stored
    /\ Sent(emitted[1].data) = lastEvent["playing_title"]

AllRequiredSubscribed ==
    /\ mqtt = "subscribed"
    /\ \A s \in RequiredSubtopics : subscribed[<<TOPIC_ROOT, s>>] = 1

\* C15: whenever the connection to the broker is not established (at start
\* or after a loss), the bridge eventually reaches a state in which every
\* required subtopic is subscribed again, however often and whenever the
\* connection is lost.
C15_EventuallyResubscribed ==
    (mqtt = "connecting") ~> AllRequiredSubscribed

C15_Witness ==
    /\ AllRequiredSubscribed
    /\ last.op = "on_connect"
    /\ CoverEnabled
    /\ lastEvent["cover_art"] # NoMsg

\* C16, as stated: a 'myevent' handler never ends in an error, whatever the
\* network thread stores while the handler iterates over the store.
C16_ReplayNeverFails ==
    /\ replay.pc # "error"
    /\ last.op = "myevent" => raised = "none"

\* the topics on_message has a statement for
DispatchedTopics ==
    { <<TOPIC_ROOT, s>> :
          s \in { "artist", "album", "genre", "title", "play_start",
                  "play_end", "play_flush", "play_resume", "volume",
                  "cover" } }

\* C17: handling a broker message whose topic on_message has no statement
\* for emits no event, leaves the store as it was, publishes nothing and
\* raises no error.
C17_UndispatchedTopicIgnored ==
    [][(last'.op = "on_message" /\ last'.topic \notin DispatchedTopics)
           => /\ SAVED_INFO' = SAVED_INFO
              /\ lastEvent' = lastEvent
              /\ emitted' = <<>>
              /\ published' = <<>>
              /\ raised' = "none"]_vars

C17_Witness ==
    /\ OnMessageOf("songalbum")
    /\ SAVED_INFO # <<>>
    /\ emitted = <<>>
    /\ raised = "none"

\* C18: in every reachable state the keys of SAVED_INFO are among
\* playing_artist, playing_album, playing_genre, playing_title and cover_art,
\* and no step removes a key; so a 'myevent' handler emits none of the play
\* signals and no volume event, and at most five events.
C18_StoreKeys ==
    /\ [](/\ DictKeys(SAVED_INFO) \subseteq StoredKinds
          /\ Len(SAVED_INFO) <= 5
          /\ last.op = "myevent" => KindsOf(emitted) \subseteq StoredKinds
          /\ \A i \in 1..Len(replay.out) :
                 replay.out[i].key \in StoredKinds
          /\ Len(replay.out) <= 5)
    /\ [][DictKeys(SAVED_INFO) \subseteq DictKeys(SAVED_INFO')]_vars

C18_Witness ==
    /\ replay.pc = "done"
    /\ lastEvent["volume"] # NoMsg
    /\ replay.during > 0
    /\ Len(replay.out) = 1
    /\ DictKeys(SAVED_INFO) # {}

\* the payload of a message cannot be decoded by the handler of its topic
DecodeFails(topic, payload) ==
    \/ /\ topic \in { <<TOPIC_ROOT, s>> : s \in TextSubtopics }
       /\ ~Utf8Decode(payload).ok
    \/ /\ topic = <<TOPIC_ROOT, "volume">>
       /\ \/ ~AsciiDecode(payload).ok
          \/ Len(Split(payload, 44)) # 4

LeavesNoTrace ==
    /\ SAVED_INFO' = SAVED_INFO
    /\ lastEvent' = lastEvent
    /\ emitted' = <<>>

\* C19: when handling a broker message fails while decoding its payload (a
\* text payload that is not valid UTF-8, a volume payload that does not split
\* into exactly four fields), the handler ends in an error with the store
\* unchanged and no event sent; and whenever on_message ends in an error,
\* the store is unchanged and no event was sent.
C19_FailureBeforeAnyEffect ==
    [][/\ (last'.op = "on_message" /\ DecodeFails(last'.topic, last'.payload))
           => (raised' # "none" /\ LeavesNoTrace)
       /\ (last'.op = "on_message" /\ raised' # "none") => LeavesNoTrace]_vars

C19_Witness ==
    /\ OnMessageOf("artist")
    /\ last.payload = <<255>>
    /\ raised = "UnicodeDecodeError"
    /\ SAVED_INFO # <<>>
    /\ sessions # {}
    /\ emitted = <<>>

RemoteOps == { "remote_" \o X : X \in RemoteTokens }

\* C20: a client request (a remote_* command or a replay request) never
\* changes the store, a remote_* command emits no display event, and
\* handling a broker message publishes nothing; only a broker message
\* changes the store and only a remote_* command publishes.
C20_DirectionsSeparate ==
    [][/\ last'.op \in RemoteOps \cup {"myevent"} =>
              (SAVED_INFO' = SAVED_INFO /\ lastEvent' = lastEvent)
       /\ last'.op \in RemoteOps => emitted' = <<>>
       /\ last'.op = "on_message" => published' = <<>>
       /\ SAVED_INFO' # SAVED_INFO => last'.op = "on_message"
       /\ published' # <<>> => last'.op \in RemoteOps]_vars

C20_Witness ==
    /\ last.op = "remote_stop"
    /\ published # <<>>
    /\ emitted = <<>>
    /\ SAVED_INFO # <<>>
    /\ replay.pc = "iter"
    /\ replay.during > 0

====
